---- MODULE Spec2Model ----
(***************************************************************************)
(* Model of equistore/data.py: the origin registry cache (_numpy_origin,   *)
(* _torch_origin), the ArrayWrapper capability record and its vtable       *)
(* callbacks (_eqs_array_shape, _eqs_array_reshape, _eqs_array_swap_axes,  *)
(* _eqs_array_create, _eqs_array_copy, _eqs_array_destroy,                 *)
(* _eqs_array_move_samples_from, eqs_array_to_python_object), and of       *)
(* equistore/operations/equal_metadata.py (equal_metadata and its three    *)
(* companions).                                                            *)
(*                                                                         *)
(* Arrays are modelled as views (shape, strides) over buffers of a heap,   *)
(* so that sharing of storage between two wrappers is expressible.         *)
(* Indices are 0-based as in the source; TLA+ sequences are 1-based, so    *)
(* axis k of the source is position k+1 of a shape sequence.               *)
(***************************************************************************)
EXTENDS Integers, Sequences, FiniteSets, TLC

\* ---------------------------------------------------------------- bounds
MaxRecords == 2       \* largest number of ArrayWrapper objects
MaxOps == 3           \* largest number of calls in one behaviour
MaxPairs == 2         \* largest number of sample pairs of one move
MaxRow == 1           \* largest row index passed in a sample pair
MaxProp == 2          \* largest property_start / property_end passed
MaxThreads == 2       \* number of threads racing for their first origin call

\* ---------------------------------------------------------------- helpers
Min(a, b) == IF a < b THEN a ELSE b
Max(a, b) == IF a > b THEN a ELSE b

RECURSIVE Product(_)
Product(s) == IF s = <<>> THEN 1 ELSE Head(s) * Product(Tail(s))

RECURSIVE SumSeq(_)
SumSeq(s) == IF s = <<>> THEN 0 ELSE Head(s) + SumSeq(Tail(s))

\* strides (in elements) of a freshly allocated C-ordered array of shape s
RowMajorStrides(s) == [k \in 1..Len(s) |-> Product(SubSeq(s, k + 1, Len(s)))]

\* the index tuples of an array of shape s (0-based entries)
RECURSIVE MaxExtent(_)
MaxExtent(s) == IF s = <<>> THEN 0 ELSE Max(Head(s), MaxExtent(Tail(s)))

Indices(s) ==
    {idx \in [1..Len(s) -> 0..(MaxExtent(s) - 1)] : \A k \in 1..Len(s) : idx[k] < s[k]}

\* the index tuple of the n-th element (0-based) of shape s in row-major order
Unravel(n, s) == [k \in 1..Len(s) |-> (n \div RowMajorStrides(s)[k]) % s[k]]

\* the absent array: storage.array = None
None == [kind |-> "none", buf |-> 0, shape |-> <<>>, strides |-> <<>>]

\* position in the buffer of the element idx of the view a
Offset(a, idx) == SumSeq([k \in 1..Len(idx) |-> idx[k] * a.strides[k]])

\* numpy's C-contiguity flag: axes of extent 1 are ignored
IsCContiguous(a) ==
    \A k \in 1..Len(a.shape) :
        a.shape[k] = 1 \/ a.strides[k] = RowMajorStrides(a.shape)[k]

\* ---------------------------------------------------------------- state
VARIABLES
    registry,              \* the core's origin table: sequence of registered names
    _NUMPY_STORAGE_ORIGIN,  \* module global _NUMPY_STORAGE_ORIGIN
    _TORCH_STORAGE_ORIGIN,  \* module global _TORCH_STORAGE_ORIGIN
    cobjs,                 \* the ctypes.c_uint64 objects allocated so far
    wrappers,              \* the ArrayWrapper objects, in creation order
    heap,                  \* buffer id -> flat sequence of element values
    last,                  \* the last call made and its outcome
    ops,                   \* number of calls made
    copied_from,           \* history: per wrapper, the wrapper it was copied from (0: none)
    pc,                    \* per thread: position inside _numpy_origin/_torch_origin
    returned               \* per thread: value returned by its origin call

vars == <<registry, _NUMPY_STORAGE_ORIGIN, _TORCH_STORAGE_ORIGIN, cobjs,
          wrappers, heap, last, ops, copied_from, pc, returned>>

\* ---------------------------------------------------------------- origins
\* __name__ + ".numpy" and __name__ + ".torch"
NumpyName == "equistore.data.numpy"
TorchName == "equistore.data.torch"
OriginNames == {NumpyName, TorchName, "alpha", "beta"}

\* values a module global can hold: None, an int, or a c_uint64 object
NoOrigin == [tag |-> "None", v |-> 0]
IntVal(n) == [tag |-> "int", v |-> n]
ObjRef(k) == [tag |-> "obj", v |-> k]

Registered(reg, name) == \E i \in 1..Len(reg) : reg[i] = name

\* the id the table holds for a name (0: not registered)
OriginId(reg, name) ==
    IF Registered(reg, name) THEN CHOOSE i \in 1..Len(reg) : reg[i] = name ELSE 0

\* lib.eqs_register_data_origin: the table after registering name
eqs_register_data_origin(reg, name) ==
    IF Registered(reg, name) THEN reg ELSE Append(reg, name)

\* one uninterrupted call of the lazily cached origin getter for `name`
\* (lines 54-62 run by a single thread):
\* the table and the global after the call; the call returns the global
CachedOrigin(reg, global, name) ==
    IF global = NoOrigin
    THEN LET r == eqs_register_data_origin(reg, name)
         IN  [registry |-> r, global |-> IntVal(OriginId(r, name))]
    ELSE [registry |-> reg, global |-> global]

_numpy_origin(reg, global) == CachedOrigin(reg, global, NumpyName)

\* faulty variant: the torch getter registers the numpy name
_torch_origin_numpy_name(reg, global) == CachedOrigin(reg, global, NumpyName)

_torch_origin(reg, global) == CachedOrigin(reg, global, TorchName)

_is_numpy_array(array) == array.kind = "numpy"

_is_torch_array(array) == array.kind = "torch"

\* ---------------------------------------------------------------- arrays
Kinds == {"numpy", "torch", "other"}

\* element idx of the view a, read through the heap h
Elem(h, a, idx) == h[a.buf][Offset(a, idx) + 1]

\* the logical content of a view: index tuple -> value
Data(h, a) == [idx \in Indices(a.shape) |-> Elem(h, a, idx)]

\* the elements of a view in row-major (C) order
Flatten(h, a) == [n \in 1..Product(a.shape) |-> Elem(h, a, Unravel(n - 1, a.shape))]

\* buffers still referenced by some wrapper (reference counting frees the rest)
Collect(h, ws) ==
    [b \in {ws[i].array.buf : i \in 1..Len(ws)} \ {0} |-> h[b]]

FreshBuf(h) == CHOOSE b \in 1..(Cardinality(DOMAIN h) + 1) :
                  b \notin DOMAIN h /\ \A c \in 1..(b - 1) : c \in DOMAIN h

\* what a call found in the record it was made on: shape and elements
NoSnap == [shape |-> <<>>, data |-> <<>>]

\* the call log entry; unused arguments keep their default. before is what
\* the call found in `this`; twice says that the call repeats the successful
\* call made just before it, on the same record with the same arguments
NoCall == [op |-> "none", this |-> 0, input |-> 0, shape |-> <<>>,
           axis_1 |-> 0, axis_2 |-> 0, pairs |-> <<>>, p0 |-> 0, p1 |-> 0,
           kind |-> "none", ok |-> TRUE, ret |-> 0, before |-> NoSnap,
           twice |-> FALSE]

\* lines 117-122: the array is of neither backend, __init__ raises ValueError
\* faulty variant: a value the numpy test rejects is taken for a torch tensor
UnknownArrayType_as_torch(array) == FALSE

UnknownArrayType(array) == ~_is_numpy_array(array) /\ ~_is_torch_array(array)

\* ArrayWrapper.__init__ after the backend test passed
ArrayWrapper(array, array_origin) ==
    [array |-> array, _shape |-> array.shape, _children |-> <<>>,
     origin |-> array_origin]

\* the origin getter ArrayWrapper.__init__ selects for an array
InitOrigin(array) ==
    IF _is_numpy_array(array)
    THEN [g |-> _numpy_origin(registry, _NUMPY_STORAGE_ORIGIN), numpy |-> TRUE]
    ELSE [g |-> _torch_origin(registry, _TORCH_STORAGE_ORIGIN), numpy |-> FALSE]

\* the registry and the two globals after ArrayWrapper.__init__ ran on array
OriginsAfterInit(array) ==
    LET o == InitOrigin(array)
    IN  /\ registry' = o.g.registry
        /\ _NUMPY_STORAGE_ORIGIN' = IF o.numpy THEN o.g.global ELSE _NUMPY_STORAGE_ORIGIN
        /\ _TORCH_STORAGE_ORIGIN' = IF o.numpy THEN _TORCH_STORAGE_ORIGIN ELSE o.g.global

Live(i) == wrappers[i].array # None

\* ---------------------------------------------------------------- initial state
Threads == 1..MaxThreads

\* a thread outside any origin getter
Idle == [fn |-> "none", at |-> "idle", tmp |-> 0]

Init ==
    /\ registry = <<>>
    /\ _NUMPY_STORAGE_ORIGIN = NoOrigin
    /\ _TORCH_STORAGE_ORIGIN = NoOrigin
    /\ cobjs = <<>>
    /\ wrappers = <<>>
    /\ heap = <<>>
    /\ last = NoCall
    /\ ops = 0
    /\ copied_from = <<>>
    /\ pc = [t \in Threads |-> Idle]
    /\ returned = [t \in Threads |-> NoOrigin]

\* ---------------------------------------------------------------- operations
\* the host wraps an array of the given backend and shape, filled with
\* distinct non-zero values
Wrap(kind, s) ==
    /\ ops < MaxOps
    /\ ops' = ops + 1
    /\ UNCHANGED <<cobjs, pc, returned>>
    /\ IF UnknownArrayType([kind |-> kind])
       THEN /\ last' = [NoCall EXCEPT !.op = "wrap", !.shape = s, !.kind = kind, !.ok = FALSE]
            /\ UNCHANGED <<registry, _NUMPY_STORAGE_ORIGIN, _TORCH_STORAGE_ORIGIN, wrappers,
                           heap, copied_from>>
       ELSE /\ Len(wrappers) < MaxRecords
            /\ copied_from' = Append(copied_from, 0)
            /\ LET b == FreshBuf(heap)
                   array == [kind |-> kind, buf |-> b, shape |-> s, strides |-> RowMajorStrides(s)]
                   w == Len(wrappers) + 1
               IN  /\ OriginsAfterInit(array)
                   /\ wrappers' = Append(wrappers, ArrayWrapper(array, InitOrigin(array).g.global))
                   /\ heap' = (b :> [n \in 1..Product(s) |-> 10 * w + n]) @@ heap
                   /\ last' = [NoCall EXCEPT !.op = "wrap", !.shape = s, !.kind = kind, !.ret = w]

\* _eqs_array_shape: reports the stored _shape
_eqs_array_shape(this) ==
    /\ ops < MaxOps
    /\ ops' = ops + 1
    /\ UNCHANGED copied_from
    /\ last' = [NoCall EXCEPT !.op = "shape", !.this = this, !.shape = wrappers[this]._shape]
    /\ UNCHANGED <<registry, _NUMPY_STORAGE_ORIGIN, _TORCH_STORAGE_ORIGIN, cobjs,
                   wrappers, heap, pc, returned>>

\* numpy.ndarray.reshape / torch.Tensor.reshape: a view when the array is
\* C-contiguous, otherwise a C-ordered copy in a new buffer
ReshapedArray(a, shape, b) ==
    IF IsCContiguous(a)
    THEN [a EXCEPT !.shape = shape, !.strides = RowMajorStrides(shape)]
    ELSE [a EXCEPT !.buf = b, !.shape = shape, !.strides = RowMajorStrides(shape)]

\* storage.array.reshape(shape) raises: no array, or the element counts differ
\* faulty variant: a resize that never rejects a different element count
ReshapeRaises_resize(array, shape) == array = None

ReshapeRaises(array, shape) ==
    array = None \/ Product(shape) # Product(array.shape)

_eqs_array_reshape(this, shape) ==
    LET storage == wrappers[this]
        fails == ReshapeRaises(storage.array, shape)
        b == FreshBuf(heap)
        array == ReshapedArray(storage.array, shape, b)
        ws == [wrappers EXCEPT ![this].array = array, ![this]._shape = shape]
    IN  /\ ops < MaxOps
        /\ ops' = ops + 1
        /\ UNCHANGED copied_from
        /\ last' = [NoCall EXCEPT !.op = "reshape", !.this = this, !.shape = shape,
                                  !.ok = ~fails]
        /\ UNCHANGED <<registry, _NUMPY_STORAGE_ORIGIN, _TORCH_STORAGE_ORIGIN, cobjs,
                       pc, returned>>
        /\ IF fails
           THEN UNCHANGED <<wrappers, heap>>
           ELSE /\ wrappers' = ws
                /\ heap' = Collect((b :> Flatten(heap, storage.array)) @@ heap, ws)

\* the sequence f with the entries of the two axes exchanged
SwapEntries(f, axis_1, axis_2) ==
    [k \in 1..Len(f) |->
        IF k = axis_1 + 1 THEN f[axis_2 + 1]
        ELSE IF k = axis_2 + 1 THEN f[axis_1 + 1] ELSE f[k]]

\* numpy.ndarray.swapaxes / torch.Tensor.swapaxes: a view with the two axes
\* exchanged in shape and strides
\* faulty variant: the swapped view is dropped, the array stays as it was
SwappedArray_dropped(a, axis_1, axis_2) == a

SwappedArray(a, axis_1, axis_2) ==
    [a EXCEPT !.shape = SwapEntries(a.shape, axis_1, axis_2),
              !.strides = SwapEntries(a.strides, axis_1, axis_2)]

\* the wrapper after lines 181-184: the array swapped, _shape re-read from it
\* faulty variant: the array is swapped but _shape is not re-read
SwappedStorage_stale_shape(storage, axis_1, axis_2) ==
    [storage EXCEPT !.array = SwappedArray(storage.array, axis_1, axis_2)]

SwappedStorage(storage, axis_1, axis_2) ==
    LET array == SwappedArray(storage.array, axis_1, axis_2)
    IN  [storage EXCEPT !.array = array, !._shape = array.shape]

_eqs_array_swap_axes(this, axis_1, axis_2) ==
    LET storage == wrappers[this]
        fails == \/ storage.array = None
                 \/ axis_1 >= Len(storage.array.shape)
                 \/ axis_2 >= Len(storage.array.shape)
    IN  /\ ops < MaxOps
        /\ ops' = ops + 1
        /\ UNCHANGED copied_from
        /\ last' = [NoCall EXCEPT !.op = "swap_axes", !.this = this, !.axis_1 = axis_1,
                                  !.axis_2 = axis_2, !.ok = ~fails,
                                  !.before = IF fails THEN NoSnap
                                             ELSE [shape |-> storage._shape,
                                                   data |-> Data(heap, storage.array)],
                                  !.twice = /\ ~fails
                                            /\ last.op = "swap_axes" /\ last.ok
                                            /\ last.this = this
                                            /\ last.axis_1 = axis_1
                                            /\ last.axis_2 = axis_2]
        /\ UNCHANGED <<registry, _NUMPY_STORAGE_ORIGIN, _TORCH_STORAGE_ORIGIN, cobjs,
                       heap, pc, returned>>
        /\ IF fails
           THEN UNCHANGED wrappers
           ELSE wrappers' = [wrappers EXCEPT ![this] = SwappedStorage(storage, axis_1, axis_2)]

\* lines 196-199: np.zeros / torch.zeros of the backend of the parent array
\* faulty variant: np.zeros whatever the backend of the parent
ZerosLike_numpy_only(a, shape, b) ==
    [kind |-> "numpy", buf |-> b, shape |-> shape, strides |-> RowMajorStrides(shape)]

ZerosLike(a, shape, b) ==
    [kind |-> a.kind, buf |-> b, shape |-> shape, strides |-> RowMajorStrides(shape)]

\* line 194: storage.array.dtype raises AttributeError when the array is gone
\* faulty variant: the dtype is read without touching the array
CreateRaises_never(array) == FALSE

CreateRaises(array) == array = None

\* _eqs_array_create: a zero-filled array of the backend of `this`, wrapped
\* and remembered in the parent's _children
_eqs_array_create(this, shape) ==
    LET storage == wrappers[this]
        fails == CreateRaises(storage.array)
        b == FreshBuf(heap)
        array == ZerosLike(storage.array, shape, b)
        w == Len(wrappers) + 1
    IN  /\ ops < MaxOps
        /\ ops' = ops + 1
        /\ UNCHANGED <<cobjs, pc, returned>>
        /\ IF fails
           THEN /\ last' = [NoCall EXCEPT !.op = "create", !.this = this, !.shape = shape,
                                          !.ok = FALSE]
                /\ UNCHANGED <<registry, _NUMPY_STORAGE_ORIGIN, _TORCH_STORAGE_ORIGIN,
                               wrappers, heap, copied_from>>
           ELSE /\ Len(wrappers) < MaxRecords
                /\ copied_from' = Append(copied_from, 0)
                /\ OriginsAfterInit(array)
                /\ wrappers' = Append([wrappers EXCEPT ![this]._children = Append(@, w)],
                                      ArrayWrapper(array, InitOrigin(array).g.global))
                /\ heap' = (b :> [n \in 1..Product(shape) |-> 0]) @@ heap
                /\ last' = [NoCall EXCEPT !.op = "create", !.this = this, !.shape = shape,
                                          !.ret = w]

\* numpy.ndarray.copy() gives a C-ordered array in a new buffer;
\* torch.Tensor.clone() gives a new buffer with the strides preserved
\* faulty variant: the new wrapper shares the array instead of copying it
CopiedArray_shared(a, b) == a

CopiedArray(a, b) ==
    IF _is_numpy_array(a)
    THEN [a EXCEPT !.buf = b, !.strides = RowMajorStrides(a.shape)]
    ELSE [a EXCEPT !.buf = b]

CopiedBuffer(h, a) ==
    IF _is_numpy_array(a) THEN Flatten(h, a) ELSE h[a.buf]

\* _eqs_array_copy: a deep copy wrapped in a new record (not added to _children)
_eqs_array_copy(this) ==
    LET storage == wrappers[this]
        fails == storage.array = None
        b == FreshBuf(heap)
        array == CopiedArray(storage.array, b)
        w == Len(wrappers) + 1
    IN  /\ ops < MaxOps
        /\ ops' = ops + 1
        /\ UNCHANGED <<cobjs, pc, returned>>
        /\ IF fails
           THEN /\ last' = [NoCall EXCEPT !.op = "copy", !.this = this, !.ok = FALSE]
                /\ UNCHANGED <<registry, _NUMPY_STORAGE_ORIGIN, _TORCH_STORAGE_ORIGIN,
                               wrappers, heap, copied_from>>
           ELSE /\ Len(wrappers) < MaxRecords
                /\ copied_from' = Append(copied_from, this)
                /\ OriginsAfterInit(array)
                /\ wrappers' = Append(wrappers, ArrayWrapper(array, InitOrigin(array).g.global))
                /\ heap' = (b :> CopiedBuffer(heap, storage.array)) @@ heap
                /\ last' = [NoCall EXCEPT !.op = "copy", !.this = this, !.ret = w]

\* _eqs_array_destroy: drops the array
_eqs_array_destroy(this) ==
    LET ws == [wrappers EXCEPT ![this].array = None]
    IN  /\ ops < MaxOps
        /\ ops' = ops + 1
        /\ UNCHANGED copied_from
        /\ wrappers' = ws
        /\ heap' = Collect(heap, ws)
        /\ last' = [NoCall EXCEPT !.op = "destroy", !.this = this]
        /\ UNCHANGED <<registry, _NUMPY_STORAGE_ORIGIN, _TORCH_STORAGE_ORIGIN, cobjs,
                       pc, returned>>

\* ---------------------------------------------------------------- references
\* wrapper i is listed in the _children of wrapper j (line 202)
ChildOf(i, j) == \E k \in 1..Len(wrappers[j]._children) : wrappers[j]._children[k] = i

\* wrapper i was built by the host around one of its own arrays, which keeps
\* it; the other wrappers were built by create (line 201) or copy (line 216)
HostOwned(i) == copied_from[i] = 0 /\ \A j \in 1..Len(wrappers) : ~ChildOf(i, j)

\* wrapper i can be reached from an object the host keeps: the local
\* `wrapper` of create and copy is gone when the callback returns, and the
\* pointer in eqs_array.ptr leads from the wrapper back to itself only
RECURSIVE Referenced(_)
Referenced(i) ==
    \/ HostOwned(i)
    \/ \E j \in 1..(i - 1) : ChildOf(i, j) /\ Referenced(j)

\* ---------------------------------------------------------------- sample move
\* first and one-past-last column selected by slice(property_start,
\* property_end) on an axis of the given extent (Python clamps both ends)
\* faulty variant: slice(0, property_end)
SliceStart_from_zero(p0, extent) == 0

SliceStart(p0, extent) == Min(p0, extent)
SliceStop(p0, p1, extent) == Max(Min(p1, extent), SliceStart(p0, extent))

LastExtent(a) == a.shape[Len(a.shape)]
Middle(a) == SubSeq(a.shape, 2, Len(a.shape) - 1)

\* shape of input[input_samples, ..., :]
RhsShape(I, n) == <<n>> \o Tail(I.shape)

\* shape of output[output_samples, ..., properties]
LhsShape(O, n, p0, p1) ==
    <<n>> \o Middle(O)
          \o <<SliceStop(p0, p1, LastExtent(O)) - SliceStart(p0, LastExtent(O))>>

\* assignment drops leading axes of extent 1 of a value of too high a rank
RECURSIVE StripLeadingOnes(_, _)
StripLeadingOnes(r, len) ==
    IF Len(r) > len /\ Head(r) = 1 THEN StripLeadingOnes(Tail(r), len) ELSE r

\* a value of shape r can be assigned to a selection of shape l
BroadcastsTo(r, l) ==
    LET r2 == StripLeadingOnes(r, Len(l))
    IN  /\ Len(r2) <= Len(l)
        /\ \A d \in 1..Len(r2) : r2[d] = 1 \/ r2[d] = l[Len(l) - Len(r2) + d]

\* index into the value of shape r read for the element j of the selection
RhsIndex(r, l, j) ==
    LET k == Len(r) - Len(StripLeadingOnes(r, Len(l)))
    IN  [d \in 1..Len(r) |->
            IF d <= k \/ r[d] = 1 THEN 0 ELSE j[Len(l) - Len(r) + d]]

\* the indexing or the assignment of line 245 raises
MoveFails(O, I, pairs, p0, p1, coerce) ==
    \/ O = None
    \/ I = None
    \/ Len(I.shape) < 2
    \/ Len(O.shape) < 2
    \/ \E k \in 1..Len(pairs) : pairs[k].input >= I.shape[1]
    \/ \E k \in 1..Len(pairs) : pairs[k].output >= O.shape[1]
    \/ ~BroadcastsTo(RhsShape(I, Len(pairs)), LhsShape(O, Len(pairs), p0, p1))
    \/ (_is_torch_array(O) /\ _is_numpy_array(I))
    \/ (_is_numpy_array(O) /\ _is_torch_array(I) /\ ~coerce)

\* the buffer of the output after line 245; the value is gathered from the
\* input before anything is written, and a row named twice keeps the last write
MovedBuffer(h, O, I, pairs, p0, p1) ==
    LET n == Len(pairs)
        r == RhsShape(I, n)
        l == LhsShape(O, n, p0, p1)
        start == SliceStart(p0, LastExtent(O))
        stop == SliceStop(p0, p1, LastExtent(O))
        rank == Len(O.shape)
        writers(d) == {k \in 1..n : pairs[k].output = d[1]}
        written(d) == d[rank] >= start /\ d[rank] < stop /\ writers(d) # {}
        lastw(d) == CHOOSE k \in writers(d) : \A k2 \in writers(d) : k2 <= k
        sel(d) == [m \in 1..rank |->
                     IF m = 1 THEN lastw(d) - 1
                     ELSE IF m = rank THEN d[rank] - start ELSE d[m]]
        value(d) == LET ri == RhsIndex(r, l, sel(d))
                    IN  Elem(h, I, <<pairs[ri[1] + 1].input>> \o Tail(ri))
        at(off) == CHOOSE d \in Indices(O.shape) : Offset(O, d) + 1 = off
    IN  [off \in 1..Len(h[O.buf]) |->
            IF written(at(off)) THEN value(at(off)) ELSE h[O.buf][off]]

_eqs_array_move_samples_from(this, input, pairs, p0, p1, coerce) ==
    LET I == wrappers[input].array
        O == wrappers[this].array
        fails == MoveFails(O, I, pairs, p0, p1, coerce)
    IN  /\ ops < MaxOps
        /\ (coerce \/ (_is_numpy_array(O) /\ _is_torch_array(I)))
        /\ ops' = ops + 1
        /\ UNCHANGED copied_from
        /\ last' = [NoCall EXCEPT !.op = "move_samples_from", !.this = this,
                                  !.input = input, !.pairs = pairs, !.p0 = p0,
                                  !.p1 = p1, !.ok = ~fails]
        /\ heap' = IF fails THEN heap
                   ELSE [heap EXCEPT ![O.buf] = MovedBuffer(heap, O, I, pairs, p0, p1)]
        /\ UNCHANGED <<registry, _NUMPY_STORAGE_ORIGIN, _TORCH_STORAGE_ORIGIN, cobjs,
                       wrappers, pc, returned>>

\* ---------------------------------------------------------------- argument sets
SamplePair(i, o) == [input |-> i, output |-> o]

\* all sample lists up to MaxPairs pairs over rows 0..MaxRow
AllPairs == UNION {[1..n -> {SamplePair(i, o) : i, o \in 0..MaxRow}] : n \in 0..MaxPairs}

\* shapes of the host arrays wrapped in the life-cycle specification
WrapShapes == {<<2, 2>>, <<1, 2>>, <<2, 1, 2>>, <<2>>}

\* shapes passed to reshape and create (shape_ptr, shape_count)
ShapeArgs == {<<4>>, <<2, 2>>, <<1, 2>>, <<2, 1>>, <<2, 1, 2>>}

\* axes passed to swap_axes
Axes == 0..2

\* sample lists and property ranges used in the life-cycle specification
SomePairs == {<<SamplePair(0, 1)>>, <<SamplePair(0, 1), SamplePair(1, 0)>>,
              <<SamplePair(0, 2)>>}
SomeRanges == {<<0, 2>>, <<1, 2>>}

\* the calls the host and the core can make, up to MaxOps calls in all
Next ==
    \/ ops < MaxOps /\ \E kind \in Kinds \ {"other"}, s \in WrapShapes : Wrap(kind, s)
    \/ ops < MaxOps /\ Wrap("other", <<2, 2>>)
    \/ ops < MaxOps /\ \E this \in 1..Len(wrappers) : _eqs_array_shape(this)
    \/ ops < MaxOps /\ \E this \in 1..Len(wrappers), shape \in ShapeArgs :
          _eqs_array_reshape(this, shape)
    \/ ops < MaxOps /\ \E this \in 1..Len(wrappers), axis_1, axis_2 \in Axes :
          _eqs_array_swap_axes(this, axis_1, axis_2)
    \/ ops < MaxOps /\ \E this \in 1..Len(wrappers), shape \in ShapeArgs :
          _eqs_array_create(this, shape)
    \/ ops < MaxOps /\ \E this \in 1..Len(wrappers) : _eqs_array_copy(this)
    \/ ops < MaxOps /\ \E this \in 1..Len(wrappers) : _eqs_array_destroy(this)
    \/ ops < MaxOps /\ \E this, input \in 1..Len(wrappers), pairs \in SomePairs,
                          r \in SomeRanges, coerce \in BOOLEAN :
          _eqs_array_move_samples_from(this, input, pairs, r[1], r[2], coerce)

Spec == Init /\ [][Next]_vars

\* ---------------------------------------------------------------- one sample move
\* shapes <<destination, source>> and backends <<destination, source>> of
\* the two host arrays of the move specification
MoveShapes == {<<<<2, 1, 2>>, <<2, 1, 1>>>>, <<<<2, 1, 2>>, <<2, 1, 2>>>>,
               <<<<2, 2>>, <<2, 2>>>>, <<<<2, 2>>, <<2, 1>>>>,
               <<<<2, 1>>, <<1, 1>>>>, <<<<1, 2>>, <<2, 1>>>>,
               <<<<2, 2>>, <<2, 1, 2>>>>, <<<<2, 2, 2>>, <<2, 2>>>>}
MoveKinds == {<<"numpy", "numpy">>, <<"torch", "torch">>, <<"numpy", "torch">>,
              <<"torch", "numpy">>}

BackendName(kind) == IF kind = "numpy" THEN NumpyName ELSE TorchName

\* the state after the host wrapped a destination and then a source array
InitMove ==
    \E sh \in MoveShapes, k \in MoveKinds :
        LET ds == sh[1]
            ss == sh[2]
            dst == [kind |-> k[1], buf |-> 1, shape |-> ds, strides |-> RowMajorStrides(ds)]
            src == [kind |-> k[2], buf |-> 2, shape |-> ss, strides |-> RowMajorStrides(ss)]
            o1 == CachedOrigin(<<>>, NoOrigin, BackendName(k[1]))
            o2 == IF k[2] = k[1] THEN o1
                  ELSE CachedOrigin(o1.registry, NoOrigin, BackendName(k[2]))
            origin(kind) == IF kind = k[1] THEN o1.global ELSE o2.global
        IN  /\ registry = o2.registry
            /\ _NUMPY_STORAGE_ORIGIN = IF "numpy" \in {k[1], k[2]} THEN origin("numpy") ELSE NoOrigin
            /\ _TORCH_STORAGE_ORIGIN = IF "torch" \in {k[1], k[2]} THEN origin("torch") ELSE NoOrigin
            /\ cobjs = <<>>
            /\ wrappers = <<ArrayWrapper(dst, o1.global), ArrayWrapper(src, o2.global)>>
            /\ heap = <<[n \in 1..Product(ds) |-> 10 + n], [n \in 1..Product(ss) |-> 20 + n]>>
            /\ last = [NoCall EXCEPT !.op = "wrap", !.shape = ss, !.kind = k[2], !.ret = 2]
            /\ ops = 0
            /\ copied_from = <<0, 0>>
            /\ pc = [t \in Threads |-> Idle]
            /\ returned = [t \in Threads |-> NoOrigin]

\* the core calls move_samples_from once on the destination
NextMove ==
    /\ ops = 0
    /\ \E pairs \in AllPairs, p0, p1 \in 0..MaxProp, coerce \in BOOLEAN :
          _eqs_array_move_samples_from(1, 2, pairs, p0, p1, coerce)

SpecMove == InitMove /\ [][NextMove]_vars

\* ---------------------------------------------------------------- origin calls in sequence
\* a direct call of lib.eqs_register_data_origin(name, origin)
Register(name) ==
    LET r == eqs_register_data_origin(registry, name)
    IN  /\ ops < MaxOps
        /\ ops' = ops + 1
        /\ registry' = r
        /\ last' = [NoCall EXCEPT !.op = "register", !.kind = name, !.ret = OriginId(r, name)]
        /\ UNCHANGED <<_NUMPY_STORAGE_ORIGIN, _TORCH_STORAGE_ORIGIN, cobjs, wrappers,
                       heap, copied_from, pc, returned>>

\* a call of _numpy_origin() that runs to completion
CallNumpyOrigin ==
    LET o == _numpy_origin(registry, _NUMPY_STORAGE_ORIGIN)
    IN  /\ ops < MaxOps
        /\ ops' = ops + 1
        /\ registry' = o.registry
        /\ _NUMPY_STORAGE_ORIGIN' = o.global
        /\ last' = [NoCall EXCEPT !.op = "numpy_origin", !.ret = o.global.v]
        /\ UNCHANGED <<_TORCH_STORAGE_ORIGIN, cobjs, wrappers, heap, copied_from, pc,
                       returned>>

\* a call of _torch_origin() that runs to completion
CallTorchOrigin ==
    LET o == _torch_origin(registry, _TORCH_STORAGE_ORIGIN)
    IN  /\ ops < MaxOps
        /\ ops' = ops + 1
        /\ registry' = o.registry
        /\ _TORCH_STORAGE_ORIGIN' = o.global
        /\ last' = [NoCall EXCEPT !.op = "torch_origin", !.ret = o.global.v]
        /\ UNCHANGED <<_NUMPY_STORAGE_ORIGIN, cobjs, wrappers, heap, copied_from, pc,
                       returned>>

NextRegistry ==
    \/ \E name \in OriginNames : Register(name)
    \/ CallNumpyOrigin
    \/ CallTorchOrigin

SpecRegistry == Init /\ [][NextRegistry]_vars

\* ---------------------------------------------------------------- objects behind records
\* origins registered by backends other than this module
ForeignNames == OriginNames \ {NumpyName, TorchName}

\* the eqs_array_t values that can reach eqs_array_to_python_object: the
\* records of the wrappers, and records of arrays of foreign backends
Records ==
    {[origin |-> wrappers[i].origin, ptr |-> i] : i \in 1..Len(wrappers)}
    \cup {[origin |-> IntVal(OriginId(registry, n)), ptr |-> 0] :
             n \in {m \in ForeignNames : Registered(registry, m)}}

\* data_origin: the value the origin callback of the record writes
data_origin(eqs_array) == eqs_array.origin

\* eqs_array_to_python_object: the object behind data.ptr when the origin of
\* data is one of the two cached origins, ValueError otherwise
eqs_array_to_python_object(data) ==
    LET origin == data_origin(data)
        known == origin \in {_NUMPY_STORAGE_ORIGIN, _TORCH_STORAGE_ORIGIN}
    IN  /\ ops < MaxOps
        /\ ops' = ops + 1
        /\ last' = [NoCall EXCEPT !.op = "to_python_object", !.this = data.ptr,
                                  !.ok = known, !.ret = origin.v]
        /\ UNCHANGED <<registry, _NUMPY_STORAGE_ORIGIN, _TORCH_STORAGE_ORIGIN, cobjs,
                       wrappers, heap, copied_from, pc, returned>>

\* the host wraps values and asks for the objects behind records, while
\* other backends register their origins
NextObjects ==
    \/ ops < MaxOps /\ \E kind \in Kinds \ {"other"}, s \in WrapShapes : Wrap(kind, s)
    \/ ops < MaxOps /\ Wrap("other", <<2, 2>>)
    \/ ops < MaxOps /\ \E name \in ForeignNames : Register(name)
    \/ ops < MaxOps /\ \E data \in Records : eqs_array_to_python_object(data)

SpecObjects == Init /\ [][NextObjects]_vars

\* ---------------------------------------------------------------- origin calls in threads
\* the global a getter reads and writes, and the name it registers
GlobalOf(fn) == IF fn = "numpy" THEN _NUMPY_STORAGE_ORIGIN ELSE _TORCH_STORAGE_ORIGIN
NameOf(fn) == IF fn = "numpy" THEN NumpyName ELSE TorchName

\* the globals after the getter fn stored g
StoreGlobal(fn, g) ==
    /\ _NUMPY_STORAGE_ORIGIN' = IF fn = "numpy" THEN g ELSE _NUMPY_STORAGE_ORIGIN
    /\ _TORCH_STORAGE_ORIGIN' = IF fn = "numpy" THEN _TORCH_STORAGE_ORIGIN ELSE g

ThreadFrame == UNCHANGED <<wrappers, heap, last, ops, copied_from>>

\* thread t enters _numpy_origin() or _torch_origin()
Call(t, fn) ==
    /\ pc[t].at = "idle"
    /\ pc' = [pc EXCEPT ![t] = [fn |-> fn, at |-> "l54", tmp |-> 0]]
    /\ UNCHANGED <<registry, _NUMPY_STORAGE_ORIGIN, _TORCH_STORAGE_ORIGIN, cobjs, returned>>
    /\ ThreadFrame

\* line 54 / 74: if <global> is None
TestNone(t) ==
    /\ pc[t].at = "l54"
    /\ pc' = [pc EXCEPT ![t].at = IF GlobalOf(pc[t].fn) = NoOrigin THEN "l55" ELSE "l62"]
    /\ UNCHANGED <<registry, _NUMPY_STORAGE_ORIGIN, _TORCH_STORAGE_ORIGIN, cobjs, returned>>
    /\ ThreadFrame

\* line 55 / 75: <global> = ctypes.c_uint64(0)
StorePlaceholder(t) ==
    /\ pc[t].at = "l55"
    /\ cobjs' = Append(cobjs, 0)
    /\ StoreGlobal(pc[t].fn, ObjRef(Len(cobjs) + 1))
    /\ pc' = [pc EXCEPT ![t].at = "l59"]
    /\ UNCHANGED <<registry, returned>>
    /\ ThreadFrame

\* line 59 / 79: lib.eqs_register_data_origin(name, <global>); the argument
\* is whatever the global holds now, and an int is rejected by ctypes
RegisterThroughGlobal(t) ==
    LET g == GlobalOf(pc[t].fn)
        r == eqs_register_data_origin(registry, NameOf(pc[t].fn))
    IN  /\ pc[t].at = "l59"
        /\ IF g.tag = "obj"
           THEN /\ registry' = r
                /\ cobjs' = [cobjs EXCEPT ![g.v] = OriginId(r, NameOf(pc[t].fn))]
                /\ pc' = [pc EXCEPT ![t].at = "l60"]
           ELSE /\ pc' = [pc EXCEPT ![t].at = "raised"]
                /\ UNCHANGED <<registry, cobjs>>
        /\ UNCHANGED <<_NUMPY_STORAGE_ORIGIN, _TORCH_STORAGE_ORIGIN, returned>>
        /\ ThreadFrame

\* line 60 / 80, right-hand side: <global>.value; an int has no such attribute
LoadValue(t) ==
    LET g == GlobalOf(pc[t].fn)
    IN  /\ pc[t].at = "l60"
        /\ pc' = [pc EXCEPT ![t] = IF g.tag = "obj"
                                   THEN [@ EXCEPT !.at = "l60s", !.tmp = cobjs[g.v]]
                                   ELSE [@ EXCEPT !.at = "raised"]]
        /\ UNCHANGED <<registry, _NUMPY_STORAGE_ORIGIN, _TORCH_STORAGE_ORIGIN, cobjs, returned>>
        /\ ThreadFrame

\* line 60 / 80, assignment: <global> = the value just read
StoreValue(t) ==
    /\ pc[t].at = "l60s"
    /\ StoreGlobal(pc[t].fn, IntVal(pc[t].tmp))
    /\ pc' = [pc EXCEPT ![t].at = "l62"]
    /\ UNCHANGED <<registry, cobjs, returned>>
    /\ ThreadFrame

\* line 62 / 82: return <global>
Return(t) ==
    /\ pc[t].at = "l62"
    /\ returned' = [returned EXCEPT ![t] = GlobalOf(pc[t].fn)]
    /\ pc' = [pc EXCEPT ![t].at = "done"]
    /\ UNCHANGED <<registry, _NUMPY_STORAGE_ORIGIN, _TORCH_STORAGE_ORIGIN, cobjs>>
    /\ ThreadFrame

NextThreads ==
    \/ \E t \in Threads, fn \in {"numpy", "torch"} : Call(t, fn)
    \/ \E t \in Threads : TestNone(t)
    \/ \E t \in Threads : StorePlaceholder(t)
    \/ \E t \in Threads : RegisterThroughGlobal(t)
    \/ \E t \in Threads : LoadValue(t)
    \/ \E t \in Threads : StoreValue(t)
    \/ \E t \in Threads : Return(t)

SpecThreads == Init /\ [][NextThreads]_vars

\* ---------------------------------------------------------------- metadata comparison
\* Model of equistore/operations/equal_metadata.py. A Labels object is
\* reduced to a number (two Labels are equal when their numbers are), a
\* TensorBlock to its three metadata and its gradients (parameter -> the
\* three metadata of the gradient), a TensorMap to its keys and one block
\* per key. Each function returns what it raises ("none": it returned) and
\* the number of comparisons of keys or block metadata it made before.
Outcome(e, n) == [raises |-> e, compared |-> n]

\* entries of a check list: a string, or a value that is not a string
Str(v) == [str |-> TRUE, v |-> v]
NotStr(v) == [str |-> FALSE, v |-> v]

\* lines 248 / 317: the allowed values
AllowedMetadata == {"samples", "components", "properties"}

\* lines 241-242 / 310-311: check=None stands for all three metadata
\* faulty variant: check=None stands for an empty list
DefaultCheck_nothing(check) ==
    IF check.type = "None" THEN <<>> ELSE check.items

DefaultCheck(check) ==
    IF check.type = "None"
    THEN <<Str("samples"), Str("components"), Str("properties")>>
    ELSE check.items

\* lines 243-249 / 312-318: the loop over the entries of check; the first
\* offending entry decides what is raised
RECURSIVE ValidateEntries(_)
\* faulty variant: the entries are only tested for being strings
ValidateEntries_strings_only(c) ==
    IF \E k \in 1..Len(c) : ~c[k].str THEN "TypeError" ELSE "none"

ValidateEntries(c) ==
    IF c = <<>> THEN "none"
    ELSE IF ~Head(c).str THEN "TypeError"
    ELSE IF Head(c).v \notin AllowedMetadata THEN "ValueError"
    ELSE ValidateEntries(Tail(c))

\* lines 239-240 / 308-309: check is neither a list nor None
NotListNorNone(check) == check.type \notin {"list", "None"}

\* _utils._check_blocks: NotEqualError for the first listed metadata on which
\* the two blocks differ; ValueError for a metadata it does not know
RECURSIVE _check_blocks(_, _, _)
_check_blocks(a, b, props) ==
    IF props = <<>> THEN "none"
    ELSE IF Head(props).v \notin AllowedMetadata THEN "ValueError"
    ELSE IF a[Head(props).v] # b[Head(props).v] THEN "NotEqualError"
    ELSE _check_blocks(a, b, Tail(props))

\* _utils._check_same_gradients: NotEqualError when the two blocks do not
\* have gradients for the same parameters, or when the gradients for some
\* parameter differ on a listed metadata
_check_same_gradients(a, b, props) ==
    IF DOMAIN a.gradients # DOMAIN b.gradients THEN "NotEqualError"
    ELSE IF \E p \in DOMAIN a.gradients :
               _check_blocks(a.gradients[p], b.gradients[p], props) = "ValueError"
    THEN "ValueError"
    ELSE IF \E p \in DOMAIN a.gradients :
               _check_blocks(a.gradients[p], b.gradients[p], props) # "none"
    THEN "NotEqualError"
    ELSE "none"

\* _utils._check_same_keys: NotEqualError when the two maps do not have the
\* same keys
_check_same_keys(a, b) ==
    IF Len(a.keys) # Len(b.keys)
       \/ {a.keys[k] : k \in 1..Len(a.keys)} # {b.keys[k] : k \in 1..Len(b.keys)}
    THEN "NotEqualError"
    ELSE "none"

\* equal_metadata_block_raise, lines 304-321
equal_metadata_block_raise(block_1, block_2, check) ==
    IF block_1.type # "TensorBlock" THEN Outcome("TypeError", 0)
    ELSE IF block_2.type # "TensorBlock" THEN Outcome("TypeError", 0)
    ELSE IF NotListNorNone(check) THEN Outcome("TypeError", 0)
    ELSE LET c == DefaultCheck(check)
             v == ValidateEntries(c)
             blocks == _check_blocks(block_1, block_2, c)
             gradients == _check_same_gradients(block_1, block_2, c)
         IN  IF v # "none" THEN Outcome(v, 0)
             ELSE IF blocks # "none" THEN Outcome(blocks, 1)
             ELSE Outcome(gradients, 2)

\* lines 253-254: the loop over the keys of tensor_1, after n comparisons
RECURSIVE BlocksLoop(_, _, _, _, _)
BlocksLoop(tensor_1, tensor_2, keys, c, n) ==
    IF keys = <<>> THEN Outcome("none", n)
    ELSE LET r == equal_metadata_block_raise(tensor_1.blocks[Head(keys)],
                                             tensor_2.blocks[Head(keys)],
                                             [type |-> "list", items |-> c])
         IN  IF r.raises # "none" THEN Outcome(r.raises, n + r.compared)
             ELSE BlocksLoop(tensor_1, tensor_2, Tail(keys), c, n + r.compared)

\* equal_metadata_raise, lines 235-254
equal_metadata_raise(tensor_1, tensor_2, check) ==
    IF tensor_1.type # "TensorMap" THEN Outcome("TypeError", 0)
    ELSE IF tensor_2.type # "TensorMap" THEN Outcome("TypeError", 0)
    ELSE IF NotListNorNone(check) THEN Outcome("TypeError", 0)
    ELSE LET c == DefaultCheck(check)
             v == ValidateEntries(c)
         IN  IF v # "none" THEN Outcome(v, 0)
             ELSE IF _check_same_keys(tensor_1, tensor_2) # "none"
             THEN Outcome("NotEqualError", 1)
             ELSE BlocksLoop(tensor_1, tensor_2, tensor_1.keys, c, 1)

\* lines 94-98 / 150-154: try ... return True, except NotEqualError: return
\* False; any other exception leaves the function
TryExcept(r) ==
    IF r.raises = "none" THEN [ret |-> "True", raises |-> "none", compared |-> r.compared]
    ELSE IF r.raises = "NotEqualError"
    THEN [ret |-> "False", raises |-> "none", compared |-> r.compared]
    ELSE [ret |-> "none", raises |-> r.raises, compared |-> r.compared]

equal_metadata(tensor_1, tensor_2, check) ==
    TryExcept(equal_metadata_raise(tensor_1, tensor_2, check))

equal_metadata_block(block_1, block_2, check) ==
    TryExcept(equal_metadata_block_raise(block_1, block_2, check))

\* ---------------------------------------------------------------- metadata arguments
Metadata(s, c, p) == [samples |-> s, components |-> c, properties |-> p]

NoGradients == <<>>
Gradient(parameter, s, c, p) == (parameter :> Metadata(s, c, p))

TensorBlock(s, c, p, gradients) ==
    [type |-> "TensorBlock", samples |-> s, components |-> c, properties |-> p,
     gradients |-> gradients]

\* a value that is neither a TensorMap nor a TensorBlock
NotATensor == [type |-> "other"]

\* the blocks of the arguments: one reference block, one block differing from
\* it in each metadata, and blocks with gradients differing among themselves
SomeBlocks ==
    {TensorBlock(0, 0, 0, NoGradients), TensorBlock(1, 0, 0, NoGradients),
     TensorBlock(0, 1, 0, NoGradients), TensorBlock(0, 0, 1, NoGradients),
     TensorBlock(0, 0, 0, Gradient("positions", 0, 0, 0)),
     TensorBlock(0, 0, 0, Gradient("positions", 1, 0, 0)),
     TensorBlock(0, 0, 0, Gradient("positions", 0, 0, 1)),
     TensorBlock(0, 0, 0, Gradient("cell", 0, 0, 0))}

SecondBlocks == {TensorBlock(0, 0, 0, NoGradients), TensorBlock(0, 1, 0, NoGradients)}

TensorMap(keys, blocks) == [type |-> "TensorMap", keys |-> keys, blocks |-> blocks]

\* maps of no, one or two keys, the two keys in either order
SomeTensors ==
    {TensorMap(<<>>, <<>>)}
    \cup {TensorMap(<<k>>, (k :> b)) : k \in 1..2, b \in SomeBlocks}
    \cup {TensorMap(ks, (1 :> b1) @@ (2 :> b2)) :
             ks \in {<<1, 2>>, <<2, 1>>}, b1 \in SomeBlocks, b2 \in SecondBlocks}

\* values passed as check
SomeChecks ==
    {[type |-> "None", items |-> <<>>], [type |-> "tuple", items |-> <<Str("samples")>>]}
    \cup {[type |-> "list", items |-> c] :
             c \in {<<>>, <<Str("samples")>>, <<Str("components")>>, <<Str("properties")>>,
                    <<Str("samples"), Str("components")>>,
                    <<Str("properties"), Str("samples"), Str("properties")>>,
                    <<Str("samples"), Str("components"), Str("properties")>>,
                    <<Str("keys")>>, <<NotStr("3")>>, <<Str("samples"), NotStr("3")>>,
                    <<Str("values"), NotStr("3")>>, <<Str("samples"), Str("values")>>}}

\* the log entry of a call of one of the four functions
MetadataCall(op, a, b, check, r) ==
    /\ ops = 0
    /\ ops' = 1
    /\ last' = [op |-> op, a |-> a, b |-> b, check |-> check, ret |-> r.ret,
                raises |-> r.raises, compared |-> r.compared]
    /\ UNCHANGED <<registry, _NUMPY_STORAGE_ORIGIN, _TORCH_STORAGE_ORIGIN, cobjs,
                   wrappers, heap, copied_from, pc, returned>>

Returned(r) == [ret |-> "none", raises |-> r.raises, compared |-> r.compared]

\* one call of one of the four functions
NextMetadata ==
    \/ ops = 0 /\ \E a, b \in SomeTensors \cup {NotATensor}, check \in SomeChecks :
          MetadataCall("equal_metadata", a, b, check, equal_metadata(a, b, check))
    \/ ops = 0 /\ \E a, b \in SomeTensors \cup {NotATensor}, check \in SomeChecks :
          MetadataCall("equal_metadata_raise", a, b, check,
                       Returned(equal_metadata_raise(a, b, check)))
    \/ ops = 0 /\ \E a, b \in SomeBlocks \cup {NotATensor}, check \in SomeChecks :
          MetadataCall("equal_metadata_block", a, b, check, equal_metadata_block(a, b, check))
    \/ ops = 0 /\ \E a, b \in SomeBlocks \cup {NotATensor}, check \in SomeChecks :
          MetadataCall("equal_metadata_block_raise", a, b, check,
                       Returned(equal_metadata_block_raise(a, b, check)))

SpecMetadata == Init /\ [][NextMetadata]_vars

\* ================================================================ properties
Mutating == {"reshape", "swap_axes", "move_samples_from"}

\* the logical content of wrapper i in the heap h, as stored in ws
Content(h, ws, i) == Data(h, ws[i].array)

\* C4: a reshape whose element count differs from that of shape(a) fails and
\* changes neither the stored shape nor the array of any record
C4_ReshapeMismatchLeavesAllUntouched ==
    [][(/\ last'.op = "reshape"
        /\ Product(last'.shape) # Product(wrappers[last'.this]._shape))
       => (~last'.ok /\ wrappers' = wrappers /\ heap' = heap)]_vars

C4_Witness ==
    /\ last.op = "reshape"
    /\ ~last.ok
    /\ Live(last.this)
    /\ Product(last.shape) # Product(wrappers[last.this]._shape)

\* C5: the stored _shape of every live record equals the shape of the array
\* the record holds
C5_ShapeMirrorsArray ==
    \A i \in 1..Len(wrappers) : Live(i) => wrappers[i]._shape = wrappers[i].array.shape

C5_Witness ==
    /\ last.op = "swap_axes"
    /\ last.ok
    /\ wrappers[last.this]._shape[last.axis_1 + 1] # wrappers[last.this]._shape[last.axis_2 + 1]

\* C6 (as claimed): every live record has a shape of at least two dimensions
C6_AtLeastTwoDimensions ==
    \A i \in 1..Len(wrappers) : Live(i) => Len(wrappers[i]._shape) >= 2

\* C8: create on a live record succeeds and returns a new record of the
\* requested shape, all zero, with the parent's origin; the parent's shape
\* and data are unchanged
C8_CreateZeroSameOrigin ==
    [][(last'.op = "create" /\ Live(last'.this))
       => LET a == last'.this
              n == last'.ret
          IN  /\ last'.ok
              /\ n = Len(wrappers) + 1
              /\ Len(wrappers') = n
              /\ wrappers'[n]._shape = last'.shape
              /\ wrappers'[n].array.shape = last'.shape
              /\ \A idx \in Indices(last'.shape) : Elem(heap', wrappers'[n].array, idx) = 0
              /\ wrappers'[n].origin = wrappers[a].origin
              /\ wrappers'[a]._shape = wrappers[a]._shape
              /\ wrappers'[a].array.shape = wrappers[a].array.shape
              /\ Content(heap', wrappers', a) = Content(heap, wrappers, a)]_vars

C8_Witness ==
    /\ last.op = "create"
    /\ last.ok
    /\ Product(last.shape) > 1
    /\ wrappers[last.this].array.kind = "torch"
    /\ \E idx \in Indices(wrappers[last.this].array.shape) :
          Elem(heap, wrappers[last.this].array, idx) # 0

\* C9: copy returns a record equal element-wise to its source, with the same
\* shape and origin; afterwards a mutating call on the copy leaves the
\* source's shape and elements unchanged, and a mutating call on the source
\* leaves the copy's unchanged
C9_CopyEqualAndIndependent ==
    [][/\ (last'.op = "copy" /\ Live(last'.this))
          => LET a == last'.this
                 n == last'.ret
             IN  /\ last'.ok
                 /\ n = Len(wrappers) + 1
                 /\ wrappers'[n]._shape = wrappers[a]._shape
                 /\ wrappers'[n].array.shape = wrappers[a].array.shape
                 /\ wrappers'[n].origin = wrappers[a].origin
                 /\ Content(heap', wrappers', n) = Content(heap, wrappers, a)
                 /\ Content(heap', wrappers', a) = Content(heap, wrappers, a)
       /\ \A c \in 1..Len(wrappers) :
            LET a == copied_from[c]
                frame(i) == /\ wrappers'[i]._shape = wrappers[i]._shape
                            /\ wrappers'[i].array.shape = wrappers[i].array.shape
                            /\ Live(i) => Content(heap', wrappers', i) = Content(heap, wrappers, i)
            IN  (a # 0 /\ a # c /\ last'.op \in Mutating)
                => /\ last'.this = c => frame(a)
                   /\ last'.this = a => frame(c)]_vars

C9_Witness ==
    /\ last.op = "move_samples_from"
    /\ last.ok
    /\ copied_from[last.this] # 0
    /\ Live(copied_from[last.this])
    /\ wrappers[last.this].array.shape = wrappers[copied_from[last.this]].array.shape
    /\ Content(heap, wrappers, last.this) # Content(heap, wrappers, copied_from[last.this])

\* ---------------------------------------------------------------- move claims
\* the arguments of a call satisfy the contract of the sample move: both
\* arrays present, of one backend, of the same rank >= 2 with equal middle
\* axes, every row index in range and no destination row named twice
MoveContract(O, I, pairs) ==
    /\ O # None /\ I # None
    /\ O.kind = I.kind
    /\ Len(O.shape) >= 2
    /\ Len(I.shape) = Len(O.shape)
    /\ Middle(O) = Middle(I)
    /\ \A k \in 1..Len(pairs) : pairs[k].input < I.shape[1] /\ pairs[k].output < O.shape[1]
    /\ \A k, m \in 1..Len(pairs) : k # m => pairs[k].output # pairs[m].output

\* the position in pairs that names destination row r (0 if none)
PairOf(pairs, r) ==
    IF \E k \in 1..Len(pairs) : pairs[k].output = r
    THEN CHOOSE k \in 1..Len(pairs) : pairs[k].output = r
    ELSE 0

\* d with its first entry replaced by row and its last by col
Readdress(d, row, col) ==
    [m \in 1..Len(d) |-> IF m = 1 THEN row ELSE IF m = Len(d) THEN col ELSE d[m]]

C2_OriginMismatchRejected ==
    [][(/\ last'.op = "move_samples_from"
        /\ last'.pairs # <<>>
        /\ last'.p0 < last'.p1
        /\ wrappers[last'.this].origin # wrappers[last'.input].origin)
       => (~last'.ok /\ heap' = heap /\ wrappers' = wrappers)]_vars

\* C7 (as claimed): a move with a row index out of range, with
\* property_start > property_end, or with property_end past the last-axis
\* extent of the destination fails and changes no element (stated for the
\* calls that name at least one row)
C7_OutOfBoundsRejected ==
    [][(/\ last'.op = "move_samples_from"
        /\ last'.pairs # <<>>
        /\ Live(last'.this) /\ Live(last'.input)
        /\ \/ \E k \in 1..Len(last'.pairs) :
                 \/ last'.pairs[k].input >= wrappers[last'.input].array.shape[1]
                 \/ last'.pairs[k].output >= wrappers[last'.this].array.shape[1]
           \/ last'.p0 > last'.p1
           \/ last'.p1 > LastExtent(wrappers[last'.this].array))
       => (~last'.ok /\ heap' = heap /\ wrappers' = wrappers)]_vars

\* ---------------------------------------------------------------- origin claims
\* C3 (as claimed): under any interleaving of first calls, no call raises,
\* every finished call returned the id the registry assigned to its backend
\* name, and once every thread has finished the global holds that id
C3_ConcurrentFirstUseReturnsId ==
    /\ \A t \in Threads :
          /\ pc[t].at # "raised"
          /\ pc[t].at = "done"
             => returned[t] = IntVal(OriginId(registry, NameOf(pc[t].fn)))
    /\ (\A t \in Threads : pc[t].at = "done")
       => \A t \in Threads :
             GlobalOf(pc[t].fn) = IntVal(OriginId(registry, NameOf(pc[t].fn)))

\* C10: an id once assigned never changes, distinct names hold distinct ids,
\* a registration returns the id its name holds, each call of
\* _numpy_origin() / _torch_origin() returns the id of its own name, and the
\* two cached origins differ
C10_RegistrationIdempotentInjective ==
    [][/\ \A name \in OriginNames :
             Registered(registry, name)
             => /\ Registered(registry', name)
                /\ OriginId(registry', name) = OriginId(registry, name)
       /\ \A n, m \in OriginNames :
             (Registered(registry', n) /\ Registered(registry', m) /\ n # m)
             => OriginId(registry', n) # OriginId(registry', m)
       /\ last'.op = "register" => last'.ret = OriginId(registry', last'.kind)
       /\ last'.op = "numpy_origin"
          => /\ last'.ret = OriginId(registry', NumpyName)
             /\ _NUMPY_STORAGE_ORIGIN' = IntVal(last'.ret)
             /\ _NUMPY_STORAGE_ORIGIN # NoOrigin => _NUMPY_STORAGE_ORIGIN' = _NUMPY_STORAGE_ORIGIN
       /\ last'.op = "torch_origin"
          => /\ last'.ret = OriginId(registry', TorchName)
             /\ _TORCH_STORAGE_ORIGIN' = IntVal(last'.ret)
             /\ _TORCH_STORAGE_ORIGIN # NoOrigin => _TORCH_STORAGE_ORIGIN' = _TORCH_STORAGE_ORIGIN
       /\ (_NUMPY_STORAGE_ORIGIN' # NoOrigin /\ _TORCH_STORAGE_ORIGIN' # NoOrigin)
          => _NUMPY_STORAGE_ORIGIN' # _TORCH_STORAGE_ORIGIN']_vars

C10_Witness ==
    /\ last.op = "register"
    /\ last.kind = "alpha"
    /\ registry = <<"alpha", "beta">>
    /\ last.ret = 1
    /\ ops = 3

\* ---------------------------------------------------------------- axis swap
\* C11: swap_axes(a, i, j) on a live record with in-range axes succeeds, the
\* new shape is the old one with entries i and j exchanged and the element at
\* every index is the old element at the index with entries i and j
\* exchanged; when the call repeats the swap made just before it, the record
\* has again the shape and the elements it had before the first of the two
C11_SwapAxesInvolution ==
    [][(/\ last'.op = "swap_axes"
        /\ Live(last'.this)
        /\ last'.axis_1 < Len(wrappers[last'.this].array.shape)
        /\ last'.axis_2 < Len(wrappers[last'.this].array.shape))
       => LET a == last'.this
              i == last'.axis_1
              j == last'.axis_2
              old == wrappers[a]
              new == wrappers'[a]
          IN  /\ last'.ok
              /\ new._shape = SwapEntries(old._shape, i, j)
              /\ new.array.shape = new._shape
              /\ \A idx \in Indices(new._shape) :
                    Elem(heap', new.array, idx) = Elem(heap, old.array, SwapEntries(idx, i, j))
              /\ (/\ last.op = "swap_axes" /\ last.ok /\ last.this = a
                  /\ last.axis_1 = i /\ last.axis_2 = j)
                 => /\ last'.twice
                    /\ new._shape = last.before.shape
                    /\ Data(heap', new.array) = last.before.data]_vars

C11_Witness ==
    /\ last.op = "swap_axes"
    /\ last.ok
    /\ last.twice
    /\ last.axis_1 # last.axis_2
    /\ last.before.shape[last.axis_1 + 1] # last.before.shape[last.axis_2 + 1]
    /\ Data(heap, wrappers[last.this].array) # last.before.data
    /\ wrappers[last.this]._shape # last.before.shape

\* ---------------------------------------------------------------- order of the pairs
\* the orderings of a list of n pairs
Perms(n) == {q \in [1..n -> 1..n] : \A k, m \in 1..n : k # m => q[k] # q[m]}
Permuted(pairs, q) == [k \in 1..Len(pairs) |-> pairs[q[k]]]

DistinctOutputs(pairs) ==
    \A k, m \in 1..Len(pairs) : k # m => pairs[k].output # pairs[m].output

\* C12 (as claimed): a move whose destination rows are pairwise distinct
\* leaves the destination in the state that the same call with the pairs in
\* any other order leaves it in, and leaves the source unchanged
C12_PairOrderIrrelevant ==
    [][(/\ last'.op = "move_samples_from"
        /\ DistinctOutputs(last'.pairs))
       => LET O == wrappers[last'.this].array
              I == wrappers[last'.input].array
          IN  /\ wrappers' = wrappers
              /\ ~last'.ok => heap' = heap
              /\ last'.ok
                 => /\ Data(heap', I) = Data(heap, I)
                    /\ \A q \in Perms(Len(last'.pairs)) :
                          LET other == Permuted(last'.pairs, q)
                          IN  /\ ~MoveFails(O, I, other, last'.p0, last'.p1, TRUE)
                              /\ MovedBuffer(heap, O, I, other, last'.p0, last'.p1)
                                    = heap'[O.buf]]_vars

\* ---------------------------------------------------------------- unsupported backends
\* C13: wrapping a value that is neither a numpy array nor a torch tensor
\* fails, adds no record and registers nothing; no record ever carries an
\* origin other than that of the backend of its array; and
\* eqs_array_to_python_object fails on every record whose origin is neither
\* the id of the numpy name nor the id of the torch name
C13_UnsupportedBackendRejected ==
    [][/\ (last'.op = "wrap" /\ last'.kind \notin {"numpy", "torch"})
          => /\ ~last'.ok
             /\ wrappers' = wrappers
             /\ registry' = registry
             /\ _NUMPY_STORAGE_ORIGIN' = _NUMPY_STORAGE_ORIGIN
             /\ _TORCH_STORAGE_ORIGIN' = _TORCH_STORAGE_ORIGIN
       /\ \A i \in 1..Len(wrappers') :
             /\ wrappers'[i].array.kind \in {"numpy", "torch"}
             /\ wrappers'[i].origin
                   = IntVal(OriginId(registry', BackendName(wrappers'[i].array.kind)))
       /\ (/\ last'.op = "to_python_object"
           /\ last'.ret # OriginId(registry, NumpyName)
           /\ last'.ret # OriginId(registry, TorchName))
          => ~last'.ok]_vars

C13_Witness ==
    /\ last.op = "to_python_object"
    /\ ~last.ok
    /\ last.ret = OriginId(registry, "alpha")
    /\ Registered(registry, "alpha")
    /\ _NUMPY_STORAGE_ORIGIN # NoOrigin

\* ---------------------------------------------------------------- metadata claims
\* the metadata a valid check lists
Listed(check) ==
    IF check.type = "None" THEN AllowedMetadata
    ELSE {check.items[k].v : k \in 1..Len(check.items)}

ValidCheck(check) ==
    /\ check.type \in {"list", "None"}
    /\ \A k \in 1..Len(check.items) :
          check.items[k].str /\ check.items[k].v \in AllowedMetadata

KeySet(tensor) == {tensor.keys[k] : k \in 1..Len(tensor.keys)}

\* two blocks have gradients for the same parameters and agree, as do their
\* gradients, on every metadata of the set
BlocksAgree(x, y, listed) ==
    /\ \A m \in listed : x[m] = y[m]
    /\ DOMAIN x.gradients = DOMAIN y.gradients
    /\ \A p \in DOMAIN x.gradients : \A m \in listed : x.gradients[p][m] = y.gradients[p][m]

TensorsAgree(x, y, listed) ==
    /\ KeySet(x) = KeySet(y)
    /\ \A key \in KeySet(x) : BlocksAgree(x.blocks[key], y.blocks[key], listed)

\* C14: on two TensorMaps and a valid check, equal_metadata returns True
\* exactly when the maps have the same keys and the blocks of every key (and
\* their gradients) agree on every listed metadata, None listing all three;
\* a second map that differs from tensor_2 only in metadata that are not
\* listed gives the same result; and the result is False exactly when
\* equal_metadata_raise raises NotEqualError
C14_EqualMetadataDecides ==
    (/\ last.op = "equal_metadata"
     /\ last.a.type = "TensorMap" /\ last.b.type = "TensorMap"
     /\ ValidCheck(last.check))
    => /\ last.raises = "none"
       /\ last.ret \in {"True", "False"}
       /\ last.ret = "True" <=> TensorsAgree(last.a, last.b, Listed(last.check))
       /\ \A other \in SomeTensors :
             TensorsAgree(last.b, other, Listed(last.check))
             => equal_metadata(last.a, other, last.check).ret = last.ret
       /\ last.ret = "False"
             <=> equal_metadata_raise(last.a, last.b, last.check).raises = "NotEqualError"

C14_Witness ==
    /\ last.op = "equal_metadata"
    /\ last.check = [type |-> "list", items |-> <<Str("samples"), Str("components")>>]
    /\ last.ret = "True"
    /\ Len(last.a.keys) = 2
    /\ \E key \in KeySet(last.a) :
          last.a.blocks[key].properties # last.b.blocks[key].properties

\* the position of the first entry of c that is not an allowed string (0: none)
FirstBadEntry(c) ==
    LET bad == {k \in 1..Len(c) : ~c[k].str \/ c[k].v \notin AllowedMetadata}
    IN  IF bad = {} THEN 0 ELSE CHOOSE k \in bad : \A m \in bad : k <= m

\* the type the function of the call expects of its two inputs
InputType(op) ==
    IF op \in {"equal_metadata", "equal_metadata_raise"} THEN "TensorMap" ELSE "TensorBlock"

\* C15: each of the four functions raises TypeError when an input is not of
\* its type, when check is neither a list nor None, or when the first entry
\* of check that is not an allowed value is not a string, and ValueError
\* when that entry is a string; it raises neither otherwise; whenever one of
\* the two is raised no keys and no block metadata have been compared, and
\* the functions returning a bool have returned nothing
C15_CheckValidatedFirst ==
    last.op \in {"equal_metadata", "equal_metadata_raise", "equal_metadata_block",
                 "equal_metadata_block_raise"}
    => LET badType == \/ last.a.type # InputType(last.op)
                      \/ last.b.type # InputType(last.op)
                      \/ last.check.type \notin {"list", "None"}
           k == FirstBadEntry(last.check.items)
       IN  /\ badType => last.raises = "TypeError"
           /\ (~badType /\ k # 0 /\ ~last.check.items[k].str) => last.raises = "TypeError"
           /\ (~badType /\ k # 0 /\ last.check.items[k].str) => last.raises = "ValueError"
           /\ (~badType /\ k = 0) => last.raises \notin {"TypeError", "ValueError"}
           /\ last.raises \in {"TypeError", "ValueError"}
              => (last.compared = 0 /\ last.ret = "none")

C15_Witness ==
    /\ last.op = "equal_metadata"
    /\ last.raises = "ValueError"
    /\ last.ret = "none"
    /\ last.check.items = <<Str("samples"), Str("values")>>
    /\ last.a.type = "TensorMap" /\ last.b.type = "TensorMap"
    /\ KeySet(last.a) # KeySet(last.b)

\* ---------------------------------------------------------------- life cycle
\* C16: a record whose array was destroyed never holds an array again, and a
\* reshape, swap_axes, create, copy or move_samples_from made on it (or a
\* move reading from it) fails, adds no record and changes no record and no
\* buffer
C16_DestroyedIsTerminal ==
    [][\A i \in 1..Len(wrappers) :
          ~Live(i)
          => /\ wrappers'[i].array = None
             /\ (/\ last'.op \in {"reshape", "swap_axes", "create", "copy",
                                   "move_samples_from"}
                 /\ (last'.this = i \/ last'.input = i))
                => (~last'.ok /\ wrappers' = wrappers /\ heap' = heap)]_vars

C16_Witness ==
    /\ last.op = "create"
    /\ ~last.ok
    /\ ~Live(last.this)
    /\ wrappers[last.this]._shape = <<2, 1, 2>>

\* C17 (as claimed): every record returned by create or by copy and not yet
\* destroyed can be reached from an object the host keeps (stated for the
\* records of at least two dimensions)
C17_ReturnedRecordsStayReferenced ==
    \A i \in 1..Len(wrappers) :
        (~HostOwned(i) /\ Live(i) /\ Len(wrappers[i]._shape) >= 2) => Referenced(i)

====
